---- MODULE Spec2Model ----
(***************************************************************************)
(* Model of espnet2/tasks/svs.py: the singing-voice-synthesis task.        *)
(* The state is the configuration namespace (args), the token-list file on *)
(* disk, the model object returned by the latest successful build_model,   *)
(* and a record of the latest call of a class method (its arguments, the   *)
(* exception it raised if any, and what it returned).                      *)
(*                                                                         *)
(* Python values: an Optional value is a set with at most one element      *)
(* (None is {}); a dict is a function whose DOMAIN is its set of keys; a   *)
(* constructed component is the record [cls, kwargs] of its class and the  *)
(* keyword arguments it was constructed with.                              *)
(***************************************************************************)
EXTENDS Integers, Sequences, FiniteSets, TLC

VARIABLES args, tokfile, model, last

vars == <<args, tokfile, model, last>>

----------------------------------------------------------------------------
(* Python values *)

None == {}

Some(x) == {x}

The(o) == CHOOSE x \in o : TRUE

EmptyDict == <<>>

\* d.get(k, default)
DictGet(d, k, default) == IF k \in DOMAIN d THEN d[k] ELSE default

\* d[k] = v
DictSet(d, k, v) == [x \in (DOMAIN d) \cup {k} |-> IF x = k THEN v ELSE d[x]]

\* d.update(e)
DictUpdate(d, e) ==
    [x \in (DOMAIN d) \cup (DOMAIN e) |-> IF x \in DOMAIN e THEN e[x] ELSE d[x]]

\* cls(**kwargs)
Construct(cls, kwargs) == [cls |-> cls, kwargs |-> kwargs]

----------------------------------------------------------------------------
(* The registries *)

feats_extractor_choices ==
    [fbank |-> "LogMelFbank", spectrogram |-> "LogSpectrogram",
     linear_spectrogram |-> "LinearSpectrogram"]

score_feats_extractor_choices ==
    [frame_score_feats |-> "FrameScoreFeats",
     syllable_score_feats |-> "SyllableScoreFeats"]

pitch_extractor_choices == [dio |-> "Dio"]

energy_extractor_choices == [energy |-> "Energy"]

normalize_choices == [global_mvn |-> "GlobalMVN"]

pitch_normalize_choices == [global_mvn |-> "GlobalMVN"]

ying_extractor_choices == [ying |-> "Ying"]

energy_normalize_choices == [global_mvn |-> "GlobalMVN"]

svs_choices ==
    [naive_rnn |-> "NaiveRNN", naive_rnn_dp |-> "NaiveRNNDP",
     xiaoice |-> "XiaoiceSing", toksing |-> "TokSing", vits |-> "VITS",
     joint_score2wav |-> "JointScore2Wav",
     singing_tacotron |-> "singing_tacotron"]

model_type_choices ==
    [svs |-> "ESPnetSVSModel", discrete_svs |-> "ESPnetDiscreteSVSModel"]

\* choices.get_class(name), for a name of the registry
GetClass(choices, name) == choices[name]

----------------------------------------------------------------------------
(* The token-list file: text, read line by line *)

NL == "\n"

Whitespace == {" ", NL}

RECURSIVE FirstNewline(_, _)
\* index of the first newline of s at or after i, 0 when there is none
FirstNewline(s, i) ==
    IF i > Len(s) THEN 0
    ELSE IF s[i] = NL THEN i
    ELSE FirstNewline(s, i + 1)

RECURSIVE FileLines(_)
\* iterating over an open text file: each line keeps its newline
FileLines(s) ==
    IF s = <<>> THEN <<>>
    ELSE LET i == FirstNewline(s, 1) IN
         IF i = 0 THEN <<s>>
         ELSE <<SubSeq(s, 1, i)>> \o FileLines(SubSeq(s, i + 1, Len(s)))

RECURSIVE rstrip(_)
\* str.rstrip(): trailing whitespace removed
rstrip(line) ==
    IF line = <<>> THEN line
    ELSE IF line[Len(line)] \in Whitespace
         THEN rstrip(SubSeq(line, 1, Len(line) - 1))
         ELSE line

\* [line.rstrip() for line in f]
ReadTokenList(f) == [i \in 1..Len(FileLines(f)) |-> rstrip(FileLines(f)[i])]

----------------------------------------------------------------------------
(* build_model: a frame holds the namespace as mutated so far, the         *)
(* exception raised if any, the components constructed so far (in order),  *)
(* and the local variables of the call.                                    *)

Locals0 ==
    [token_list |-> <<>>, vocab_size |-> 0, odim |-> 0,
     discrete_token_layers |-> 0, kwargs |-> EmptyDict,
     feats_extract |-> None, normalize |-> None, svs |-> None,
     score_feats_extract |-> None, pitch_extract |-> None,
     ying_extract |-> None, energy_extract |-> None,
     pitch_normalize |-> None, energy_normalize |-> None]

Frame0(a) == [args |-> a, raised |-> None, built |-> <<>>, loc |-> Locals0]

Raise(st, e) == [st EXCEPT !.raised = Some(e)]

ListOf(items) == [kind |-> "list", path |-> "", items |-> items]

TupleOf(items) == [kind |-> "tuple", path |-> "", items |-> items]

PathOf(p) == [kind |-> "str", path |-> p, items |-> <<>>]

NoTokenList == [kind |-> "none", path |-> "", items |-> <<>>]

\* ResolveTokenList with a token_list of no known form taken as empty
ResolveTokenList_Lenient(st, f) ==
    LET tl == st.args.token_list IN
    IF tl.kind = "str" THEN
        LET token_list == ReadTokenList(f) IN
        [st EXCEPT !.args.token_list = ListOf(token_list),
                   !.loc.token_list = token_list,
                   !.loc.vocab_size = Len(token_list)]
    ELSE IF tl.kind = "tuple" THEN Raise(st, "AttributeError")
    ELSE [st EXCEPT !.loc.token_list = tl.items,
                    !.loc.vocab_size = Len(tl.items)]

\* lines 364-377: the vocabulary, from a path or a sequence
ResolveTokenList(st, f) ==
    LET tl == st.args.token_list IN
    IF tl.kind = "str" THEN
        LET token_list == ReadTokenList(f) IN
        [st EXCEPT !.args.token_list = ListOf(token_list),
                   !.loc.token_list = token_list,
                   !.loc.vocab_size = Len(token_list)]
    ELSE IF tl.kind = "list" THEN
        [st EXCEPT !.loc.token_list = tl.items,
                   !.loc.vocab_size = Len(tl.items)]
    ELSE IF tl.kind = "tuple" THEN
        \* a tuple passes the isinstance test and has no copy()
        Raise(st, "AttributeError")
    ELSE Raise(st, "RuntimeError")

\* getattr(args, "model_type", "svs")
RawModelType(a) == IF a.model_type = None THEN "svs" ELSE The(a.model_type)

\* feats_extract.output_size()
OutputSize(fe) ==
    IF fe.cls = "LogMelFbank" THEN fe.kwargs.n_mels
    ELSE (fe.kwargs.n_fft \div 2) + 1

\* BuildFeatsExtract clearing the extractor's options on both branches
BuildFeatsExtract_AlwaysClears(st) ==
    IF st.raised # None THEN st
    ELSE IF st.args.odim = None THEN
        IF st.args.feats_extract = None \/ st.args.feats_extract_conf = None
        THEN Raise(st, "TypeError")
        ELSE LET feats_extract ==
                     Construct(GetClass(feats_extractor_choices,
                                        The(st.args.feats_extract)),
                               The(st.args.feats_extract_conf))
             IN [st EXCEPT !.args.feats_extract = None,
                           !.args.feats_extract_conf = None,
                           !.loc.feats_extract = Some(feats_extract),
                           !.loc.odim = OutputSize(feats_extract),
                           !.built = Append(@, "feats_extract")]
    ELSE [st EXCEPT !.args.feats_extract = None,
                    !.args.feats_extract_conf = None,
                    !.loc.feats_extract = None,
                    !.loc.odim = The(st.args.odim)]

\* lines 383-393: the feature extractor and the output dimension
BuildFeatsExtract(st) ==
    IF st.raised # None THEN st
    ELSE IF st.args.odim = None THEN
        IF st.args.feats_extract = None \/ st.args.feats_extract_conf = None
        THEN Raise(st, "TypeError")
        ELSE LET feats_extract ==
                     Construct(GetClass(feats_extractor_choices,
                                        The(st.args.feats_extract)),
                               The(st.args.feats_extract_conf))
             IN [st EXCEPT !.loc.feats_extract = Some(feats_extract),
                           !.loc.odim = OutputSize(feats_extract),
                           !.built = Append(@, "feats_extract")]
    ELSE [st EXCEPT !.args.feats_extract = None,
                    !.args.feats_extract_conf = None,
                    !.loc.feats_extract = None,
                    !.loc.odim = The(st.args.odim)]

\* DiscreteOverride without the override of odim
DiscreteOverride_KeepsOdim(st) ==
    IF st.raised # None THEN st
    ELSE IF RawModelType(st.args) = "discrete_svs" THEN
        [st EXCEPT !.loc.discrete_token_layers = st.args.discrete_token_layers,
                   !.loc.kwargs = DictSet(@, "discrete_token_layers",
                                          st.args.discrete_token_layers)]
    ELSE st

\* lines 395-398: the discrete model takes its output dimension from nclusters
DiscreteOverride(st) ==
    IF st.raised # None THEN st
    ELSE IF RawModelType(st.args) = "discrete_svs" THEN
        [st EXCEPT !.loc.odim = st.args.nclusters,
                   !.loc.discrete_token_layers = st.args.discrete_token_layers,
                   !.loc.kwargs = DictSet(@, "discrete_token_layers",
                                          st.args.discrete_token_layers)]
    ELSE st

\* lines 401-405
BuildNormalize(st) ==
    IF st.raised # None THEN st
    ELSE IF st.args.normalize # None THEN
        [st EXCEPT !.loc.normalize =
                       Some(Construct(GetClass(normalize_choices,
                                               The(st.args.normalize)),
                                      st.args.normalize_conf)),
                   !.built = Append(@, "normalize")]
    ELSE [st EXCEPT !.loc.normalize = None]

\* lines 408-418
BuildSvs(st) ==
    IF st.raised # None THEN st
    ELSE LET svs_class == GetClass(svs_choices, st.args.svs)
             dims == [idim |-> st.loc.vocab_size, odim |-> st.loc.odim]
             svs == IF RawModelType(st.args) = "discrete_svs"
                    THEN Construct(svs_class,
                             DictUpdate(DictSet(dims, "discrete_token_layers",
                                                st.loc.discrete_token_layers),
                                        st.args.svs_conf))
                    ELSE Construct(svs_class, DictUpdate(dims, st.args.svs_conf))
         IN [st EXCEPT !.loc.svs = Some(svs),
                       !.loc.kwargs = DictSet(@, "svs", Some(svs)),
                       !.built = Append(@, "svs")]

\* lines 428-434
BuildScoreFeatsExtract(st) ==
    IF st.raised # None THEN st
    ELSE IF st.args.score_feats_extract # None THEN
        [st EXCEPT !.loc.score_feats_extract =
                       Some(Construct(GetClass(score_feats_extractor_choices,
                                               The(st.args.score_feats_extract)),
                                      st.args.score_feats_extract_conf)),
                   !.built = Append(@, "score_feats_extract")]
    ELSE st

\* args.svs_conf.get("reduction_factor", 1)
SvsReductionFactor(a) == DictGet(a.svs_conf, "reduction_factor", Some(1))

\* BuildPitchExtract inheriting the default factor, not svs_conf's
BuildPitchExtract_DefaultRF(st) ==
    IF st.raised # None THEN st
    ELSE IF st.args.pitch_extract # None THEN
        LET cls == GetClass(pitch_extractor_choices, The(st.args.pitch_extract))
            conf == st.args.pitch_extract_conf
        IN IF DictGet(conf, "reduction_factor", None) # None THEN
               IF DictGet(conf, "reduction_factor", None)
                      = SvsReductionFactor(st.args)
               THEN [st EXCEPT !.loc.pitch_extract = Some(Construct(cls, conf)),
                               !.built = Append(@, "pitch_extract")]
               ELSE Raise(st, "AssertionError")
           ELSE LET filled == DictSet(conf, "reduction_factor", Some(1))
                IN [st EXCEPT !.args.pitch_extract_conf = filled,
                              !.loc.pitch_extract = Some(Construct(cls, filled)),
                              !.built = Append(@, "pitch_extract")]
    ELSE st

\* lines 435-445
BuildPitchExtract(st) ==
    IF st.raised # None THEN st
    ELSE IF st.args.pitch_extract # None THEN
        LET cls == GetClass(pitch_extractor_choices, The(st.args.pitch_extract))
            conf == st.args.pitch_extract_conf
        IN IF DictGet(conf, "reduction_factor", None) # None THEN
               IF DictGet(conf, "reduction_factor", None)
                      = SvsReductionFactor(st.args)
               THEN [st EXCEPT !.loc.pitch_extract = Some(Construct(cls, conf)),
                               !.built = Append(@, "pitch_extract")]
               ELSE Raise(st, "AssertionError")
           ELSE LET filled == DictSet(conf, "reduction_factor",
                                      SvsReductionFactor(st.args))
                IN [st EXCEPT !.args.pitch_extract_conf = filled,
                              !.loc.pitch_extract = Some(Construct(cls, filled)),
                              !.built = Append(@, "pitch_extract")]
    ELSE st

\* lines 446-453
BuildYingExtract(st) ==
    IF st.raised # None THEN st
    ELSE IF st.args.ying_extract # None THEN
        [st EXCEPT !.loc.ying_extract =
                       Some(Construct(GetClass(ying_extractor_choices,
                                               The(st.args.ying_extract)),
                                      st.args.ying_extract_conf)),
                   !.built = Append(@, "ying_extract")]
    ELSE st

\* BuildEnergyExtract without the consistency check
BuildEnergyExtract_Unchecked(st) ==
    IF st.raised # None THEN st
    ELSE IF st.args.energy_extract # None THEN
        LET conf == st.args.energy_extract_conf
            filled == IF DictGet(conf, "reduction_factor", None) # None
                      THEN conf
                      ELSE DictSet(conf, "reduction_factor",
                                   SvsReductionFactor(st.args))
        IN [st EXCEPT !.args.energy_extract_conf = filled,
                      !.loc.energy_extract =
                          Some(Construct(GetClass(energy_extractor_choices,
                                                  The(st.args.energy_extract)),
                                         filled)),
                      !.built = Append(@, "energy_extract")]
    ELSE st

\* lines 454-466
BuildEnergyExtract(st) ==
    IF st.raised # None THEN st
    ELSE IF st.args.energy_extract # None THEN
        LET conf == st.args.energy_extract_conf IN
        IF DictGet(conf, "reduction_factor", None) # None THEN
            IF DictGet(conf, "reduction_factor", None)
                   = SvsReductionFactor(st.args)
            THEN [st EXCEPT !.loc.energy_extract =
                                Some(Construct(GetClass(energy_extractor_choices,
                                                        The(st.args.energy_extract)),
                                               conf)),
                            !.built = Append(@, "energy_extract")]
            ELSE Raise(st, "AssertionError")
        ELSE LET filled == DictSet(conf, "reduction_factor",
                                   SvsReductionFactor(st.args))
             IN [st EXCEPT !.args.energy_extract_conf = filled,
                           !.loc.energy_extract =
                               Some(Construct(GetClass(energy_extractor_choices,
                                                       The(st.args.energy_extract)),
                                              filled)),
                           !.built = Append(@, "energy_extract")]
    ELSE st

\* lines 467-471
BuildPitchNormalize(st) ==
    IF st.raised # None THEN st
    ELSE IF st.args.pitch_normalize # None THEN
        [st EXCEPT !.loc.pitch_normalize =
                       Some(Construct(GetClass(pitch_normalize_choices,
                                               The(st.args.pitch_normalize)),
                                      st.args.pitch_normalize_conf)),
                   !.built = Append(@, "pitch_normalize")]
    ELSE st

\* lines 472-476
BuildEnergyNormalize(st) ==
    IF st.raised # None THEN st
    ELSE IF st.args.energy_normalize # None THEN
        [st EXCEPT !.loc.energy_normalize =
                       Some(Construct(GetClass(energy_normalize_choices,
                                               The(st.args.energy_normalize)),
                                      st.args.energy_normalize_conf)),
                   !.built = Append(@, "energy_normalize")]
    ELSE st

\* ModelKwargs with the two normalizers of pitch and energy exchanged
ModelKwargs_NormalizersSwapped(st) ==
    DictUpdate(st.loc.kwargs,
        [text_extract |-> st.loc.score_feats_extract,
         feats_extract |-> st.loc.feats_extract,
         score_feats_extract |-> st.loc.score_feats_extract,
         label_extract |-> st.loc.score_feats_extract,
         duration_extract |-> st.loc.score_feats_extract,
         pitch_extract |-> st.loc.pitch_extract,
         energy_extract |-> st.loc.energy_extract,
         ying_extract |-> st.loc.ying_extract,
         normalize |-> st.loc.normalize,
         pitch_normalize |-> st.loc.energy_normalize,
         energy_normalize |-> st.loc.pitch_normalize])

\* lines 478-488: the sub-components handed to the model class
ModelKwargs(st) ==
    DictUpdate(st.loc.kwargs,
        [text_extract |-> st.loc.score_feats_extract,
         feats_extract |-> st.loc.feats_extract,
         score_feats_extract |-> st.loc.score_feats_extract,
         label_extract |-> st.loc.score_feats_extract,
         duration_extract |-> st.loc.score_feats_extract,
         pitch_extract |-> st.loc.pitch_extract,
         energy_extract |-> st.loc.energy_extract,
         ying_extract |-> st.loc.ying_extract,
         normalize |-> st.loc.normalize,
         pitch_normalize |-> st.loc.pitch_normalize,
         energy_normalize |-> st.loc.energy_normalize])

\* the frame at the end of build_model's body
BuildFrame(a, f) ==
    BuildEnergyNormalize(BuildPitchNormalize(BuildEnergyExtract(
        BuildYingExtract(BuildPitchExtract(BuildScoreFeatsExtract(
            BuildSvs(BuildNormalize(DiscreteOverride(BuildFeatsExtract(
                ResolveTokenList(Frame0(a), f)))))))))))

\* build_model(args): the namespace it leaves, the exception or the model
build_model(a, f) ==
    LET st == BuildFrame(a, f) IN
    [args |-> st.args,
     raised |-> st.raised,
     built |-> st.built,
     ret |-> IF st.raised # None THEN None
             ELSE Some(Construct(GetClass(model_type_choices, RawModelType(a)),
                                 DictUpdate(ModelKwargs(st), st.args.model_conf)))]

----------------------------------------------------------------------------
(* build_preprocess_fn *)

\* lines 304-319: [raised, ret]; subscripting None is a TypeError, a missing
\* key a KeyError
build_preprocess_fn(a, train) ==
    IF a.use_preprocessor THEN
        IF a.feats_extract_conf = None
        THEN [raised |-> Some("TypeError"), ret |-> None]
        ELSE IF "hop_length" \notin DOMAIN The(a.feats_extract_conf)
        THEN [raised |-> Some("KeyError"), ret |-> None]
        ELSE [raised |-> None,
              ret |-> Some(Construct("SVSPreprocessor",
                         [train |-> train,
                          token_type |-> a.token_type,
                          token_list |-> a.token_list,
                          bpemodel |-> a.bpemodel,
                          non_linguistic_symbols |-> a.non_linguistic_symbols,
                          text_cleaner |-> a.cleaner,
                          g2p_type |-> a.g2p,
                          fs |-> a.fs,
                          hop_length |-> The(a.feats_extract_conf).hop_length]))]
    ELSE [raised |-> None, ret |-> None]

----------------------------------------------------------------------------
(* The field declarations *)

\* required_data_names deciding on train instead of inference
required_data_names_ByTrain(train, inference) ==
    IF train THEN <<"text", "singing", "score", "label">>
    ELSE <<"text", "score", "label">>

\* lines 325-330
required_data_names(train, inference) ==
    IF ~inference THEN <<"text", "singing", "score", "label">>
    ELSE <<"text", "score", "label">>

\* optional_data_names with singing also offered outside inference
optional_data_names_WithSinging(train, inference) ==
    IF ~inference
    THEN <<"spembs", "singing", "durations", "pitch", "energy", "sids", "lids",
           "feats", "ying", "discrete_token">>
    ELSE <<"spembs", "singing", "pitch", "durations", "sids", "lids",
           "discrete_token">>

\* lines 336-359
optional_data_names(train, inference) ==
    IF ~inference
    THEN <<"spembs", "durations", "pitch", "energy", "sids", "lids",
           "feats", "ying", "discrete_token">>
    ELSE <<"spembs", "singing", "pitch", "durations", "sids", "lids",
           "discrete_token">>

----------------------------------------------------------------------------
(* build_vocoder_from_file *)

\* str(vocoder_file).endswith(suffix)
EndsWith(s, suffix) ==
    /\ Len(s) >= Len(suffix)
    /\ SubSeq(s, Len(s) - Len(suffix) + 1, Len(s)) = suffix

PklSuffix == <<".", "p", "k", "l">>

\* model.feats_extract.get_parameters(): the extractor's spectrogram parameters
GetParameters(fe) ==
    [fs |-> fe.kwargs.fs, n_fft |-> fe.kwargs.n_fft,
     n_shift |-> fe.kwargs.hop_length]

\* lines 510-537: [raised, ret, warned]; vocoder_config_file is the mapping
\* the YAML file holds, or None
build_vocoder_from_file(vocoder_config_file, vocoder_file, m, device) ==
    IF vocoder_file = None THEN
        LET loaded == IF vocoder_config_file # None
                      THEN The(vocoder_config_file) ELSE EmptyDict
        IN IF m = None
           THEN [raised |-> Some("AttributeError"), ret |-> None,
                 warned |-> FALSE]
           ELSE LET fe == The(m).kwargs.feats_extract
                    vocoder_conf == IF fe # None
                                    THEN DictUpdate(loaded, GetParameters(The(fe)))
                                    ELSE loaded
                IN IF /\ "n_fft" \in DOMAIN vocoder_conf
                      /\ "n_shift" \in DOMAIN vocoder_conf
                      /\ "fs" \in DOMAIN vocoder_conf
                   THEN [raised |-> None,
                         ret |-> Some(Construct("Spectrogram2Waveform",
                                                vocoder_conf)),
                         warned |-> FALSE]
                   ELSE [raised |-> None, ret |-> None, warned |-> TRUE]
    ELSE IF EndsWith(The(vocoder_file), PklSuffix) THEN
        [raised |-> None,
         ret |-> Some(Construct("ParallelWaveGANPretrainedVocoder",
                          [vocoder_file |-> vocoder_file,
                           vocoder_config_file |-> vocoder_config_file,
                           device |-> device])),
         warned |-> FALSE]
    ELSE [raised |-> Some("ValueError"), ret |-> None, warned |-> FALSE]

----------------------------------------------------------------------------
(* Bounds and input sets *)

\* reduction factors range over 1..MaxRF
MaxRF == 2

\* feature dimensions and cluster counts range over 1..MaxDim
MaxDim == 2

\* token-list files hold at most MaxFileLen characters
MaxFileLen == 3

Chars == {"a", " ", NL}

TokenFiles == UNION {[1..n -> Chars] : n \in 0..MaxFileLen}

DefaultTokenFile == <<"a", NL, "a", "a", NL>>

TokenListPath == "tokens.txt"

\* the keyword configuration of the default feature extractor
DefaultFeatsConf == [hop_length |-> 256, n_fft |-> 1024, n_mels |-> 80, fs |-> 24000]

\* lines 59-147 and 183-286: the defaults of the options and registries,
\* with token_list unset
DefaultArgs ==
    [token_list |-> NoTokenList,
     odim |-> None,
     model_conf |-> EmptyDict,
     use_preprocessor |-> TRUE,
     token_type |-> "phn",
     bpemodel |-> None,
     non_linguistic_symbols |-> None,
     cleaner |-> None,
     g2p |-> None,
     fs |-> 24000,
     discrete_token_layers |-> 1,
     nclusters |-> 1024,
     score_feats_extract |-> Some("frame_score_feats"),
     score_feats_extract_conf |-> EmptyDict,
     feats_extract |-> Some("fbank"),
     feats_extract_conf |-> Some(DefaultFeatsConf),
     normalize |-> Some("global_mvn"),
     normalize_conf |-> EmptyDict,
     svs |-> "naive_rnn",
     svs_conf |-> EmptyDict,
     pitch_extract |-> None,
     pitch_extract_conf |-> EmptyDict,
     pitch_normalize |-> None,
     pitch_normalize_conf |-> EmptyDict,
     ying_extract |-> None,
     ying_extract_conf |-> EmptyDict,
     energy_extract |-> None,
     energy_extract_conf |-> EmptyDict,
     energy_normalize |-> None,
     energy_normalize_conf |-> EmptyDict,
     model_type |-> Some("svs")]

Optional(S) == {None} \cup {Some(x) : x \in S}

\* an extractor's configuration: no reduction_factor, a null one, or a number
ExtractorConfs ==
    {EmptyDict} \cup {[reduction_factor |-> r] : r \in Optional(1..MaxRF)}

\* the synthesis configuration: no reduction_factor, or a number
SvsConfs == {EmptyDict} \cup {[reduction_factor |-> Some(n)] : n \in 1..MaxRF}

\* an explicit output dimension, when one is given
GivenOdim == 45

\* configurations that vary the pitch and energy extractors, the reduction
\* factors, odim, the form of token_list and use_preprocessor
ReductionArgs ==
    {[DefaultArgs EXCEPT !.token_list = tl, !.odim = od,
                         !.use_preprocessor = up,
                         !.pitch_extract = pe, !.pitch_extract_conf = pc,
                         !.energy_extract = ee, !.energy_extract_conf = ec,
                         !.svs_conf = sc] :
        tl \in {PathOf(TokenListPath), ListOf(ReadTokenList(DefaultTokenFile))},
        od \in {None, Some(GivenOdim)},
        up \in BOOLEAN,
        pe \in Optional(DOMAIN pitch_extractor_choices), pc \in ExtractorConfs,
        ee \in Optional(DOMAIN energy_extractor_choices), ec \in ExtractorConfs,
        sc \in SvsConfs}

\* configurations that vary which components are selected, the model type
\* and the dimensions
SlotArgs ==
    {[DefaultArgs EXCEPT !.token_list = ListOf(ReadTokenList(DefaultTokenFile)),
                         !.odim = od, !.model_type = mt, !.nclusters = nc,
                         !.feats_extract = Some(fe),
                         !.feats_extract_conf =
                             Some([DefaultFeatsConf EXCEPT !.n_mels = nm,
                                                           !.n_fft = 2 * MaxDim]),
                         !.normalize = no, !.score_feats_extract = sf,
                         !.pitch_extract = pe, !.ying_extract = ye,
                         !.energy_extract = ee, !.pitch_normalize = pn,
                         !.energy_normalize = en] :
        od \in Optional(1..MaxDim),
        mt \in Optional(DOMAIN model_type_choices),
        nc \in 1..MaxDim,
        fe \in {"fbank", "spectrogram"},
        nm \in 1..MaxDim,
        no \in Optional(DOMAIN normalize_choices),
        sf \in Optional({"frame_score_feats"}),
        pe \in Optional(DOMAIN pitch_extractor_choices),
        ye \in Optional(DOMAIN ying_extractor_choices),
        ee \in Optional(DOMAIN energy_extractor_choices),
        pn \in Optional(DOMAIN pitch_normalize_choices),
        en \in Optional(DOMAIN energy_normalize_choices)}

\* the forms token_list can take for the token file f
TokenListForms(f) ==
    {NoTokenList, PathOf(TokenListPath), ListOf(FileLines(f)),
     ListOf(ReadTokenList(f)), TupleOf(FileLines(f))}

TokenArgs(f) ==
    {[DefaultArgs EXCEPT !.token_list = tl, !.odim = od] :
        tl \in TokenListForms(f), od \in {None, Some(GivenOdim)}}

\* configurations for the vocoder: with and without a feature extractor
VocoderArgs ==
    {[DefaultArgs EXCEPT !.token_list = ListOf(ReadTokenList(DefaultTokenFile)),
                         !.odim = od, !.feats_extract = Some(fe)] :
        od \in {None, Some(GivenOdim)}, fe \in DOMAIN feats_extractor_choices}

FullVocoderConf == [n_fft |-> 1024, n_shift |-> 256, fs |-> 24000]

\* the YAML files: every subset of the three parameters, or no file
VocoderConfigFiles ==
    Optional({[k \in S |-> FullVocoderConf[k]] : S \in SUBSET DOMAIN FullVocoderConf})

\* checkpoint paths: none, one with the .pkl extension, two without
VocoderFiles ==
    Optional({<<"v", ".", "p", "k", "l">>, <<"v", ".", "p", "t", "h">>,
              <<"p", "k", "l">>})

----------------------------------------------------------------------------
(* Actions: one per class method *)

NoCall == [op |-> "none"]

BuildModel ==
    LET r == build_model(args, tokfile) IN
    /\ args' = r.args
    /\ model' = IF r.ret # None THEN r.ret ELSE model
    /\ last' = [op |-> "build_model", pre |-> args, raised |-> r.raised,
                built |-> r.built, ret |-> r.ret]
    /\ UNCHANGED tokfile

BuildPreprocessFn ==
    \E train \in BOOLEAN :
        LET r == build_preprocess_fn(args, train) IN
        /\ last' = [op |-> "build_preprocess_fn", train |-> train,
                    raised |-> r.raised, ret |-> r.ret]
        /\ UNCHANGED <<args, tokfile, model>>

RequiredDataNames ==
    \E train \in BOOLEAN, inference \in BOOLEAN :
        /\ last' = [op |-> "required_data_names", train |-> train,
                    inference |-> inference,
                    ret |-> required_data_names(train, inference)]
        /\ UNCHANGED <<args, tokfile, model>>

OptionalDataNames ==
    \E train \in BOOLEAN, inference \in BOOLEAN :
        /\ last' = [op |-> "optional_data_names", train |-> train,
                    inference |-> inference,
                    ret |-> optional_data_names(train, inference)]
        /\ UNCHANGED <<args, tokfile, model>>

BuildVocoderFromFile ==
    \E vocoder_config_file \in VocoderConfigFiles, vocoder_file \in VocoderFiles,
       m \in {None, model} :
        LET r == build_vocoder_from_file(vocoder_config_file, vocoder_file,
                                         m, "cpu") IN
        /\ last' = [op |-> "build_vocoder_from_file",
                    vocoder_config_file |-> vocoder_config_file,
                    vocoder_file |-> vocoder_file, model |-> m,
                    raised |-> r.raised, ret |-> r.ret, warned |-> r.warned]
        /\ UNCHANGED <<args, tokfile, model>>

----------------------------------------------------------------------------
(* Specifications *)

Init ==
    /\ args \in ReductionArgs
    /\ tokfile = DefaultTokenFile
    /\ model = None
    /\ last = NoCall

Next ==
    \/ BuildModel
    \/ BuildPreprocessFn
    \/ RequiredDataNames
    \/ OptionalDataNames

Spec == Init /\ [][Next]_vars

InitSlots ==
    /\ args \in SlotArgs
    /\ tokfile = DefaultTokenFile
    /\ model = None
    /\ last = NoCall

NextSlots == BuildModel

SpecSlots == InitSlots /\ [][NextSlots]_vars

InitTokens ==
    /\ tokfile \in TokenFiles
    /\ args \in TokenArgs(tokfile)
    /\ model = None
    /\ last = NoCall

NextTokens == BuildModel

SpecTokens == InitTokens /\ [][NextTokens]_vars

InitVocoder ==
    /\ args \in VocoderArgs
    /\ tokfile = DefaultTokenFile
    /\ model = None
    /\ last = NoCall

NextVocoder ==
    \/ BuildModel
    \/ BuildVocoderFromFile

SpecVocoder == InitVocoder /\ [][NextVocoder]_vars

----------------------------------------------------------------------------
(* Properties *)

\* the latest call was build_model
Built == last.op = "build_model"

\* the latest call was build_model and it returned a model
BuiltOk == Built /\ last.raised = None /\ last.ret # None

\* the reduction factor an extractor's configuration carries, None when it
\* is absent or null
ConfRF(conf) == DictGet(conf, "reduction_factor", None)

\* the pitch (energy) extractor is selected in a with a reduction factor
\* that differs from the synthesis configuration's
PitchConflict(a) ==
    /\ a.pitch_extract # None
    /\ ConfRF(a.pitch_extract_conf) # None
    /\ ConfRF(a.pitch_extract_conf) # SvsReductionFactor(a)

EnergyConflict(a) ==
    /\ a.energy_extract # None
    /\ ConfRF(a.energy_extract_conf) # None
    /\ ConfRF(a.energy_extract_conf) # SvsReductionFactor(a)

\* C1: build_model raises and returns no model whenever the pitch or the
\* energy extractor is selected with a non-null reduction_factor that differs
\* from the synthesis configuration's (1 when svs_conf has none).
C1_ConflictFails ==
    (Built /\ (PitchConflict(last.pre) \/ EnergyConflict(last.pre)))
        => (last.raised # None /\ last.ret = None)

\* C1 witness: an energy conflict alone (the pitch extractor was constructed
\* first) made the call fail on the consistency check
C1_Witness ==
    /\ Built
    /\ EnergyConflict(last.pre)
    /\ ~PitchConflict(last.pre)
    /\ last.pre.pitch_extract # None
    /\ "reduction_factor" \in DOMAIN last.pre.svs_conf
    /\ last.raised = Some("AssertionError")
    /\ "pitch_extract" \in {last.built[i] : i \in DOMAIN last.built}

\* the extractor in slot of the returned model was constructed with the
\* synthesis configuration's reduction factor
InheritedRF(slot) ==
    /\ last.ret # None
    /\ The(last.ret).kwargs[slot] # None
    /\ ConfRF(The(The(last.ret).kwargs[slot]).kwargs)
           = SvsReductionFactor(last.pre)

\* C2: a selected pitch or energy extractor whose configuration has no
\* reduction_factor (absent or null) is constructed with the synthesis
\* configuration's reduction_factor (1 when svs_conf has none).
C2_InheritsRF ==
    BuiltOk =>
        /\ (last.pre.pitch_extract # None
                /\ ConfRF(last.pre.pitch_extract_conf) = None)
               => InheritedRF("pitch_extract")
        /\ (last.pre.energy_extract # None
                /\ ConfRF(last.pre.energy_extract_conf) = None)
               => InheritedRF("energy_extract")

\* C2 witness: both extractors inherit a factor other than the default, one
\* from an absent key and one from a null value
C2_Witness ==
    /\ BuiltOk
    /\ last.pre.pitch_extract # None
    /\ last.pre.pitch_extract_conf = EmptyDict
    /\ last.pre.energy_extract # None
    /\ last.pre.energy_extract_conf = [reduction_factor |-> None]
    /\ SvsReductionFactor(last.pre) = Some(MaxRF)
    /\ InheritedRF("pitch_extract")
    /\ InheritedRF("energy_extract")

\* the registry of each optional slot of the model
SlotChoices ==
    [feats_extract |-> feats_extractor_choices,
     score_feats_extract |-> score_feats_extractor_choices,
     normalize |-> normalize_choices,
     pitch_extract |-> pitch_extractor_choices,
     energy_extract |-> energy_extractor_choices,
     ying_extract |-> ying_extractor_choices,
     pitch_normalize |-> pitch_normalize_choices,
     energy_normalize |-> energy_normalize_choices]

\* the slot of the returned model holds nothing when `selected` is false and
\* a component of the class the configuration names when it is true
SlotMatches(slot, selected) ==
    LET held == The(last.ret).kwargs[slot] IN
    IF selected
    THEN /\ held # None
         /\ The(held).cls = GetClass(SlotChoices[slot], The(last.pre[slot]))
    ELSE held = None

SvsSlotMatches ==
    LET held == The(last.ret).kwargs.svs IN
    held # None /\ The(held).cls = GetClass(svs_choices, last.pre.svs)

\* C3 as stated: every slot of the returned model, feats_extract included,
\* holds a component exactly when the configuration passed in selected it.
C3_SlotsAsSelected ==
    BuiltOk =>
        /\ SvsSlotMatches
        /\ \A slot \in DOMAIN SlotChoices :
               SlotMatches(slot, last.pre[slot] # None)

\* C3 amended: every slot other than feats_extract holds a component exactly
\* when the configuration passed in selected it; feats_extract holds one
\* exactly when it was selected and odim was not given.
C3_SlotsAsSelectedUnlessOdim ==
    BuiltOk =>
        /\ SvsSlotMatches
        /\ \A slot \in (DOMAIN SlotChoices) \ {"feats_extract"} :
               SlotMatches(slot, last.pre[slot] # None)
        /\ SlotMatches("feats_extract",
                       last.pre.feats_extract # None /\ last.pre.odim = None)

\* C3 witness: a model built with odim given, some optional slots selected
\* and others not
C3_Witness ==
    /\ BuiltOk
    /\ last.pre.odim # None
    /\ last.pre.feats_extract # None
    /\ The(last.ret).kwargs.feats_extract = None
    /\ last.pre.ying_extract # None
    /\ The(last.ret).kwargs.ying_extract # None
    /\ last.pre.pitch_extract = None
    /\ last.pre.energy_normalize # None
    /\ last.pre.normalize = None

\* the odim the synthesis component of the returned model was constructed with
SvsOdim == The(The(last.ret).kwargs.svs).kwargs.odim

\* the output size of the feature extractor the configuration a selects
SelectedOutputSize(a) ==
    OutputSize(Construct(GetClass(feats_extractor_choices, The(a.feats_extract)),
                         The(a.feats_extract_conf)))

\* C4: with model_type discrete_svs the synthesis component gets odim =
\* nclusters whatever args.odim and the feature extractor's size; otherwise
\* it gets args.odim when given and the feature extractor's size when not.
C4_Odim ==
    BuiltOk =>
        IF last.pre.model_type = Some("discrete_svs")
        THEN SvsOdim = last.pre.nclusters
        ELSE IF last.pre.odim # None
        THEN SvsOdim = The(last.pre.odim)
        ELSE SvsOdim = SelectedOutputSize(last.pre)

\* C4 witness: a discrete model whose nclusters differs from the feature
\* extractor's output size, with no odim given
C4_Witness ==
    /\ BuiltOk
    /\ last.pre.model_type = Some("discrete_svs")
    /\ last.pre.odim = None
    /\ SelectedOutputSize(last.pre) # last.pre.nclusters
    /\ SvsOdim = last.pre.nclusters
    /\ The(last.ret).cls = "ESPnetDiscreteSVSModel"

\* the latest call was build_vocoder_from_file
Vocoded == last.op = "build_vocoder_from_file"

\* the parameters of the YAML file (none without a file) merged with those
\* of the feature extractor of the model m (none without a model or without
\* an extractor)
MergedParameters(vocoder_config_file, m) ==
    LET loaded == IF vocoder_config_file = None THEN EmptyDict
                  ELSE The(vocoder_config_file)
    IN IF m # None /\ The(m).kwargs.feats_extract # None
       THEN DictUpdate(loaded, GetParameters(The(The(m).kwargs.feats_extract)))
       ELSE loaded

CompleteParameters(d) == {"n_fft", "n_shift", "fs"} \subseteq DOMAIN d

\* C5: without a checkpoint path build_vocoder_from_file never fails, for
\* every config file and model argument (model=None included): it returns a
\* Griffin-Lim vocoder when n_fft, n_shift and fs are all among the merged
\* parameters, and None with a warning otherwise; with a checkpoint path
\* whose extension is not .pkl it raises the unsupported-format error.
C5_VocoderOutcomes ==
    Vocoded =>
        IF last.vocoder_file = None
        THEN /\ last.raised = None
             /\ IF CompleteParameters(MergedParameters(last.vocoder_config_file,
                                                       last.model))
                THEN /\ last.ret # None
                     /\ The(last.ret).cls = "Spectrogram2Waveform"
                ELSE last.ret = None /\ last.warned
        ELSE ~EndsWith(The(last.vocoder_file), PklSuffix)
                 => last.raised = Some("ValueError")

\* C6: required_data_names is (text, singing, score, label) outside
\* inference and (text, score, label) in inference; optional_data_names is
\* (spembs, durations, pitch, energy, sids, lids, feats, ying,
\* discrete_token) outside inference and (spembs, singing, pitch, durations,
\* sids, lids, discrete_token) in inference.
C6_FieldNames ==
    /\ (last.op = "required_data_names" /\ ~last.inference)
           => last.ret = <<"text", "singing", "score", "label">>
    /\ (last.op = "required_data_names" /\ last.inference)
           => last.ret = <<"text", "score", "label">>
    /\ (last.op = "optional_data_names" /\ ~last.inference)
           => last.ret = <<"spembs", "durations", "pitch", "energy", "sids",
                           "lids", "feats", "ying", "discrete_token">>
    /\ (last.op = "optional_data_names" /\ last.inference)
           => last.ret = <<"spembs", "singing", "pitch", "durations", "sids",
                           "lids", "discrete_token">>

\* C6 witness: the inference-mode declaration of the required fields, asked
\* with train set
C6_Witness ==
    /\ last.op = "required_data_names"
    /\ last.inference
    /\ last.train
    /\ Len(last.ret) = 3

\* C7: with a token_list that is neither a path nor a list or tuple,
\* build_model raises the configuration error, having constructed no
\* component and changed no field of args.
C7_BadTokenListFails ==
    (Built /\ last.pre.token_list.kind \notin {"str", "list", "tuple"})
        => /\ last.raised = Some("RuntimeError")
           /\ last.ret = None
           /\ last.built = <<>>
           /\ args = last.pre

\* C7 witness: build_model was called with token_list None and odim given
C7_Witness ==
    /\ Built
    /\ last.pre.token_list = NoTokenList
    /\ last.pre.odim # None
    /\ last.raised = Some("RuntimeError")
    /\ args.feats_extract # None

\* C8: build_model uses the same vocabulary size, the number of lines of the
\* token-list file, whether token_list is the file's path or the sequence of
\* the file's lines (a list or a tuple, stripped or not).
C8_SameVocabulary ==
    (Built /\ last.pre.token_list.kind \in {"str", "list", "tuple"})
        => /\ BuiltOk
           /\ The(The(last.ret).kwargs.svs).kwargs.idim = Len(FileLines(tokfile))

\* C9: build_preprocess_fn, before or after build_model, raises nothing and
\* returns a callable exactly when use_preprocessor is true.
C9_PreprocessFollowsFlag ==
    last.op = "build_preprocess_fn"
        => /\ last.raised = None
           /\ (last.ret # None) <=> args.use_preprocessor

\* C10 as stated: build_model changes no field of args other than token_list.
C10_OnlyTokenListChanges ==
    Built => \A f \in (DOMAIN args) \ {"token_list"} : args[f] = last.pre[f]

\* the fields of args build_model assigns
AssignedFields ==
    {"token_list", "feats_extract", "feats_extract_conf",
     "pitch_extract_conf", "energy_extract_conf"}

\* conf is left as it was, or gained the synthesis reduction factor because
\* its extractor was selected and it carried none
ConfFilledOrKept(extract, conf) ==
    \/ args[conf] = last.pre[conf]
    \/ /\ last.pre[extract] # None
       /\ ConfRF(last.pre[conf]) = None
       /\ args[conf] = DictSet(last.pre[conf], "reduction_factor",
                               SvsReductionFactor(last.pre))

\* C10 amended: build_model changes no field of args other than token_list
\* (a path becomes the list read from the file), feats_extract and
\* feats_extract_conf (both become None when odim is given) and
\* pitch_extract_conf / energy_extract_conf (which gain reduction_factor,
\* set to the synthesis configuration's, when the extractor is selected and
\* its configuration has none).
C10_AssignedFieldsOnly ==
    Built =>
        /\ \A f \in (DOMAIN args) \ AssignedFields : args[f] = last.pre[f]
        /\ \/ args.token_list = last.pre.token_list
           \/ /\ last.pre.token_list.kind = "str"
              /\ args.token_list = ListOf(ReadTokenList(tokfile))
        /\ \/ /\ args.feats_extract = last.pre.feats_extract
              /\ args.feats_extract_conf = last.pre.feats_extract_conf
           \/ /\ last.pre.odim # None
              /\ args.feats_extract = None
              /\ args.feats_extract_conf = None
        /\ ConfFilledOrKept("pitch_extract", "pitch_extract_conf")
        /\ ConfFilledOrKept("energy_extract", "energy_extract_conf")

\* C10 witness: one call resolved the token list, dropped the feature
\* extractor and filled in the pitch extractor's reduction factor
C10_Witness ==
    /\ BuiltOk
    /\ last.pre.token_list.kind = "str"
    /\ args.token_list.kind = "list"
    /\ last.pre.feats_extract_conf # None
    /\ args.feats_extract_conf = None
    /\ last.pre.pitch_extract_conf = EmptyDict
    /\ args.pitch_extract_conf = [reduction_factor |-> Some(MaxRF)]
    /\ args.svs_conf = last.pre.svs_conf

\* the set of the names of a tuple of field names
Names(t) == {t[i] : i \in DOMAIN t}

\* C11: the field declarations depend on the inference flag alone (the
\* other value of train gives the same tuple); singing is required exactly
\* outside inference and optional exactly in inference; no name is both
\* required and optional for the same (train, inference).
C11_DeclarationsByInference ==
    /\ last.op = "required_data_names"
           => /\ last.ret = required_data_names(~last.train, last.inference)
              /\ ("singing" \in Names(last.ret)) <=> ~last.inference
              /\ Names(last.ret)
                     \cap Names(optional_data_names(last.train, last.inference))
                     = {}
    /\ last.op = "optional_data_names"
           => /\ last.ret = optional_data_names(~last.train, last.inference)
              /\ ("singing" \in Names(last.ret)) <=> last.inference
              /\ Names(last.ret)
                     \cap Names(required_data_names(last.train, last.inference))
                     = {}

\* C11 witness: the optional fields asked in inference with train unset
\* offer singing, which the required fields of that mode leave out
C11_Witness ==
    /\ last.op = "optional_data_names"
    /\ last.inference
    /\ ~last.train
    /\ "singing" \in Names(last.ret)
    /\ "singing" \notin Names(required_data_names(last.train, last.inference))

====
